---- MODULE Spec2Model ----
(***************************************************************************)
(* A model of diascript.js: the box-model layout of Vbox/Hbox trees, the   *)
(* render pass of a Diagram, connector routing and marker placement, and   *)
(* shrinkWrap.                                                             *)
(*                                                                         *)
(* Numbers.  A JavaScript number is modelled as an integer counting        *)
(* 1/Unit-ths, so that the halvings of layout() (x / 2) and the baseline   *)
(* factor of Text.render (height * 0.8) are exact on the inputs drawn      *)
(* here.  Two more values stand for the JavaScript values undefined and    *)
(* NaN; arithmetic on them follows JavaScript (undefined + 1 is NaN, any   *)
(* comparison with NaN is false).  Floating-point rounding is not          *)
(* modelled.                                                               *)
(***************************************************************************)
EXTENDS Integers, Sequences, FiniteSets, TLC

VARIABLES
    shapes,   \* Diagram.shapes: the top-level shapes, each a tree
    lines,    \* Diagram.lines
    el,       \* Diagram.el: TRUE once renderInto has stored the element
    svg,      \* the SVG element handed to renderInto: its size and children
    last      \* the last call: its name, its argument, the shapes and the
              \* element it found, whether it threw, the renderInto calls so far

vars == <<shapes, lines, el, svg, last>>

----------------------------------------------------------------------------
(* JavaScript values *)

\* 1/Unit is the resolution of the modelled numbers: 8 for three nested
\* halvings, 5 for the factor 0.8.
Unit == 8 * 5

undefined == -2147483647
NaN == -2147483646

\* A property that holds a string (id, align, valign, from, to, markers) and
\* was not given.
absent == "undefined"

IsNum(v) == v # undefined /\ v # NaN

Add(a, b) == IF IsNum(a) /\ IsNum(b) THEN a + b ELSE NaN
Sub(a, b) == IF IsNum(a) /\ IsNum(b) THEN a - b ELSE NaN
\* a / 2
Half(a) == IF IsNum(a) THEN a \div 2 ELSE NaN
\* a > b
Gt(a, b) == IsNum(a) /\ IsNum(b) /\ a > b
\* a || b on numbers: undefined, NaN and 0 are falsy
OrElse(a, b) == IF a = undefined \/ a = NaN \/ a = 0 THEN b ELSE a

RECURSIVE MathMin(_)
\* Math.min(...s)
MathMin(s) ==
    IF Len(s) = 0 THEN undefined
    ELSE IF Len(s) = 1 THEN (IF IsNum(s[1]) THEN s[1] ELSE NaN)
    ELSE LET r == MathMin(Tail(s))
         IN  IF ~IsNum(s[1]) \/ ~IsNum(r) THEN NaN
             ELSE IF s[1] < r THEN s[1] ELSE r

RECURSIVE MathMax(_)
\* Math.max(...s)
MathMax(s) ==
    IF Len(s) = 0 THEN undefined
    ELSE IF Len(s) = 1 THEN (IF IsNum(s[1]) THEN s[1] ELSE NaN)
    ELSE LET r == MathMax(Tail(s))
         IN  IF ~IsNum(s[1]) \/ ~IsNum(r) THEN NaN
             ELSE IF s[1] > r THEN s[1] ELSE r

----------------------------------------------------------------------------
(* Shapes *)

\* The text-measurement collaborator: getBBox() of a text, a function of the
\* text alone.
Measure(text) ==
    CASE text = "a"  -> [width |-> 10 * Unit, height |-> 20 * Unit]
      [] text = "bb" -> [width |-> 30 * Unit, height |-> 10 * Unit]
      [] OTHER       -> [width |-> 0, height |-> 0]

\* props.padding: a number or an array of numbers.  isNumber is
\* typeof(padding) === 'number'; a number p is held as <<p>>.
PadNumber(p) == [isNumber |-> TRUE, list |-> <<p>>]
PadArray(l)  == [isNumber |-> FALSE, list |-> l]

\* new Text(props, text)
Text(id, x, y, text) ==
    [kind |-> "Text", id |-> id, text |-> text,
     x |-> x, y |-> y, width |-> undefined, height |-> undefined,
     dx |-> undefined, dy |-> undefined,
     padding |-> PadNumber(0), spacing |-> 0,
     align |-> absent, valign |-> absent, children |-> <<>>]

\* new Vbox(props, ...children) and new Hbox(props, ...children): spacing and
\* padding default to 0.
Box(kind, id, x, y, width, height, padding, spacing, align, valign, children) ==
    [kind |-> kind, id |-> id, text |-> "",
     x |-> x, y |-> y, width |-> width, height |-> height,
     dx |-> undefined, dy |-> undefined,
     padding |-> IF padding.isNumber /\ padding.list[1] = 0
                 THEN PadNumber(0) ELSE padding,
     spacing |-> OrElse(spacing, 0),
     align |-> align, valign |-> valign, children |-> children]

\* this.padding[i] of an array; past its end it is undefined
PadAt(s, i) ==
    IF i + 1 <= Len(s.padding.list) THEN s.padding.list[i + 1] ELSE undefined

\* Box.paddingNumber; null is modelled as undefined
paddingNumber(s) ==
    IF s.padding.isNumber /\ s.padding.list[1] = 0 THEN 0
    ELSE IF s.padding.isNumber THEN s.padding.list[1]
    ELSE undefined

paddingTop(s) ==
    IF paddingNumber(s) # undefined THEN paddingNumber(s)
    ELSE PadAt(s, 0)

paddingRight(s) ==
    IF paddingNumber(s) # undefined THEN paddingNumber(s)
    ELSE IF Len(s.padding.list) > 1 THEN PadAt(s, 1)
    ELSE PadAt(s, 0)

paddingBottom(s) ==
    IF paddingNumber(s) # undefined THEN paddingNumber(s)
    ELSE IF Len(s.padding.list) = 1 THEN PadAt(s, 0)
    ELSE IF Len(s.padding.list) = 2 THEN PadAt(s, 0)
    ELSE IF Len(s.padding.list) = 3 THEN PadAt(s, 2)
    ELSE PadAt(s, 2)

\* paddingLeft with a slip: the third entry of a three-entry array
paddingLeftThird(s) ==
    IF paddingNumber(s) # undefined THEN paddingNumber(s)
    ELSE IF Len(s.padding.list) = 1 THEN PadAt(s, 0)
    ELSE IF Len(s.padding.list) = 2 THEN PadAt(s, 1)
    ELSE IF Len(s.padding.list) = 3 THEN PadAt(s, 2)
    ELSE PadAt(s, 3)

paddingLeft(s) ==
    IF paddingNumber(s) # undefined THEN paddingNumber(s)
    ELSE IF Len(s.padding.list) = 1 THEN PadAt(s, 0)
    ELSE IF Len(s.padding.list) = 2 THEN PadAt(s, 1)
    ELSE IF Len(s.padding.list) = 3 THEN PadAt(s, 1)
    ELSE PadAt(s, 3)

----------------------------------------------------------------------------
(* layout() *)

\* Text.layout with a slip: the height is not taken from the bounding box
TextLayoutWidthOnly(s) == [s EXCEPT !.width = Measure(s.text).width]

\* Text.layout
TextLayout(s) ==
    [s EXCEPT !.width = Measure(s.text).width,
              !.height = Measure(s.text).height]

\* The switch on this.valign with a slip: 'bottom' falls through to the
\* default
topSpaceOfFallThrough(valign, extraSpaceV) ==
    CASE valign = "top" -> 0
      [] OTHER          -> Half(extraSpaceV)

\* The switch on this.valign (Vbox.layout, Hbox.layout)
topSpaceOf(valign, extraSpaceV) ==
    CASE valign = "top"    -> 0
      [] valign = "bottom" -> extraSpaceV
      [] OTHER             -> Half(extraSpaceV)

\* The switch on this.align with a slip: the cases of 'left' and 'right'
\* exchanged
leftSpaceOfExchanged(align, extraSpaceH) ==
    CASE align = "left"  -> extraSpaceH
      [] align = "right" -> 0
      [] OTHER           -> Half(extraSpaceH)

\* The switch on this.align (Vbox.layout, Hbox.layout)
leftSpaceOf(align, extraSpaceH) ==
    CASE align = "left"  -> 0
      [] align = "right" -> extraSpaceH
      [] OTHER           -> Half(extraSpaceH)

\* A spacing rule with a slip: spacing before the first child too
SpacingBeforeEvery(s, i) == s.spacing

\* The spacing a stacking loop adds before child i (0-based): if (i > 0)
SpacingBefore(s, i) == IF i > 0 THEN s.spacing ELSE 0

RECURSIVE StackExtent(_, _, _, _)
\* The first loop's running sum on the stacking axis over children 1..n of
\* the laid-out children kids: contentHeight of a Vbox, contentWidth of an
\* Hbox.
StackExtent(s, kids, axis, n) ==
    IF n = 0 THEN 0
    ELSE Add(Add(StackExtent(s, kids, axis, n - 1), SpacingBefore(s, n - 1)),
             kids[n][axis])

\* The running maximum with a slip: every child's extent is taken, larger
\* than the one held or not
CrossExtentOfLast(kids, axis, n) == IF n = 0 THEN 0 ELSE kids[n][axis]

RECURSIVE CrossExtent(_, _, _)
\* The first loop's running maximum on the cross axis: contentWidth of a
\* Vbox, contentHeight of an Hbox.
CrossExtent(kids, axis, n) ==
    IF n = 0 THEN 0
    ELSE LET m == CrossExtent(kids, axis, n - 1)
         IN  IF Gt(kids[n][axis], m) THEN kids[n][axis] ELSE m

\* Vbox.layout: this.height = this.height || (y + paddingBottom), and its
\* counterparts for the other axis and for Hbox.
FinalSize(forced, computed) == OrElse(forced, computed)

RECURSIVE VboxOffset(_, _, _, _)
\* The second loop of Vbox.layout: y when child n (1-based) is placed.
VboxOffset(s, kids, y0, n) ==
    IF n = 1 THEN Add(y0, SpacingBefore(s, 0))
    ELSE Add(Add(VboxOffset(s, kids, y0, n - 1), kids[n - 1].height),
             SpacingBefore(s, n - 1))

RECURSIVE HboxOffset(_, _, _, _)
\* The second loop of Hbox.layout: x when child n (1-based) is placed.
HboxOffset(s, kids, x0, n) ==
    IF n = 1 THEN Add(x0, SpacingBefore(s, 0))
    ELSE Add(Add(HboxOffset(s, kids, x0, n - 1), kids[n - 1].width),
             SpacingBefore(s, n - 1))

RECURSIVE layout(_)

VboxLayout(s) ==
    LET n == Len(s.children)
        kids == [i \in 1..n |-> layout(s.children[i])]
        contentWidth == CrossExtent(kids, "width", n)
        contentHeight == StackExtent(s, kids, "height", n)
        extraSpaceV ==
            IF s.height = undefined THEN 0
            ELSE Sub(Sub(Sub(s.height, paddingTop(s)), paddingBottom(s)),
                     contentHeight)
        topSpace == topSpaceOf(s.valign, extraSpaceV)
        y0 == Add(paddingTop(s), topSpace)
        extraSpaceH(child) ==
            IF s.width = undefined THEN Sub(contentWidth, child.width)
            ELSE Sub(Sub(Sub(s.width, paddingLeft(s)), paddingRight(s)),
                     child.width)
        placed == [i \in 1..n |->
            [kids[i] EXCEPT
                !.dx = Add(paddingLeft(s),
                           leftSpaceOf(s.align, extraSpaceH(kids[i]))),
                !.dy = VboxOffset(s, kids, y0, i)]]
        y == IF n = 0 THEN y0
             ELSE Add(VboxOffset(s, kids, y0, n), kids[n].height)
    IN  [s EXCEPT
            !.children = placed,
            !.height = FinalSize(s.height, Add(y, paddingBottom(s))),
            !.width = FinalSize(s.width,
                Add(Add(contentWidth, paddingLeft(s)), paddingRight(s)))]

HboxLayout(s) ==
    LET n == Len(s.children)
        kids == [i \in 1..n |-> layout(s.children[i])]
        contentWidth == StackExtent(s, kids, "width", n)
        contentHeight == CrossExtent(kids, "height", n)
        extraSpaceH ==
            IF s.width = undefined THEN 0
            ELSE Sub(Sub(Sub(s.width, paddingLeft(s)), paddingRight(s)),
                     contentWidth)
        leftSpace == leftSpaceOf(s.align, extraSpaceH)
        x0 == Add(paddingLeft(s), leftSpace)
        extraSpaceV(child) ==
            IF s.height = undefined THEN Sub(contentHeight, child.height)
            ELSE Sub(Sub(Sub(s.height, paddingTop(s)), paddingBottom(s)),
                     child.height)
        placed == [i \in 1..n |->
            [kids[i] EXCEPT
                !.dx = HboxOffset(s, kids, x0, i),
                !.dy = Add(paddingTop(s),
                           topSpaceOf(s.valign, extraSpaceV(kids[i])))]]
        x == IF n = 0 THEN x0
             ELSE Add(HboxOffset(s, kids, x0, n), kids[n].width)
    IN  [s EXCEPT
            !.children = placed,
            !.width = FinalSize(s.width, Add(x, paddingRight(s))),
            !.height = FinalSize(s.height,
                Add(Add(contentHeight, paddingTop(s)), paddingBottom(s)))]

\* The layout() of a client's own subclass of Shape that defines neither
\* width nor height, the defect the Shape contract leaves to the subclass
CustomLayout(s) == s

layout(s) ==
    CASE s.kind = "Text" -> TextLayout(s)
      [] s.kind = "Vbox" -> VboxLayout(s)
      [] s.kind = "Hbox" -> HboxLayout(s)
      [] s.kind = "Custom" -> CustomLayout(s)

----------------------------------------------------------------------------
(* render(x, y) *)

\* height * 0.8
Times08(h) == IF IsNum(h) THEN (h * 4) \div 5 ELSE NaN

\* Text.attrs and Box.attrs: the geometry that select() copies (the style
\* attributes fill, stroke, ... are constant and left out)
TextAttrs(s) == [x |-> s.x, y |-> s.y]
BoxAttrs(s) == [x |-> s.x, y |-> s.y, width |-> s.width, height |-> s.height]

\* The y that Text.render records
TextY(s, y) == Add(y, Times08(s.height))

\* Where Box.render renders a child
ChildX(x, child) == Add(x, child.dx)
ChildY(y, child) == Add(y, child.dy)

RECURSIVE render(_, _, _)
RECURSIVE renderChildren(_, _, _, _)

\* The forEach of Box.render with a slip: what a child returns is put before
\* what the children before it returned
renderChildrenPrepending(s, x, y, n) ==
    IF n = 0 THEN [kids |-> <<>>, result |-> <<>>]
    ELSE LET before == renderChildren(s, x, y, n - 1)
             child == s.children[n]
             r == render(child, ChildX(x, child), ChildY(y, child))
         IN  [kids |-> Append(before.kids, r.shape),
              result |-> r.result \o before.result]

\* The forEach of Box.render over children 1..n: the children as rendered and
\* the concatenation of what their render calls returned.
renderChildren(s, x, y, n) ==
    IF n = 0 THEN [kids |-> <<>>, result |-> <<>>]
    ELSE LET before == renderChildren(s, x, y, n - 1)
             child == s.children[n]
             r == render(child, ChildX(x, child), ChildY(y, child))
         IN  [kids |-> Append(before.kids, r.shape),
              result |-> before.result \o r.result]

\* Text.render and Box.render: the shape with x and y recorded, and the
\* pseudo-elements returned.
render(s, x, y) ==
    IF s.kind = "Text"
    THEN LET t == [s EXCEPT !.x = x, !.y = TextY(s, y)]
         IN  [shape |-> t,
              result |-> <<[tag |-> "text", attrs |-> TextAttrs(t),
                            text |-> t.text]>>]
    ELSE LET b == [s EXCEPT !.x = x, !.y = y]
             r == renderChildren(b, x, y, Len(b.children))
         IN  [shape |-> [b EXCEPT !.children = r.kids],
              result |-> <<[tag |-> "rect", attrs |-> BoxAttrs(b)]>>
                         \o r.result]

----------------------------------------------------------------------------
(* Distances.  distance() is a square root; it is held as the exact square  *)
(* it is the root of, a number of three digits in base Base (so that        *)
(* squares of coordinates past 1000000 fit), and compared through it.       *)

Base == 10000

Abs(n) == IF n < 0 THEN -n ELSE n

\* Three digits of base Base, most significant first, from unnormalised ones
Carry(t2, t1, t0) ==
    LET c1 == t1 + (t0 \div Base)
    IN  <<t2 + (c1 \div Base), c1 % Base, t0 % Base>>

\* n * n
Square(n) ==
    LET a == Abs(n) \div Base
        b == Abs(n) % Base
    IN  Carry(a * a, 2 * a * b, b * b)

BigAdd(p, q) == Carry(p[1] + q[1], p[2] + q[2], p[3] + q[3])

BigLess(p, q) ==
    \/ p[1] < q[1]
    \/ p[1] = q[1] /\ p[2] < q[2]
    \/ p[1] = q[1] /\ p[2] = q[2] /\ p[3] < q[3]

NaNDistance == [nan |-> TRUE, sq |-> <<0, 0, 0>>]

\* The number n as a distance
AsDistance(n) == [nan |-> FALSE, sq |-> Square(n)]

\* distance([x0, y0], [x1, y1])
distance(p, q) ==
    LET dx == Sub(q[1], p[1])
        dy == Sub(q[2], p[2])
    IN  IF IsNum(dx) /\ IsNum(dy)
        THEN [nan |-> FALSE, sq |-> BigAdd(Square(dx), Square(dy))]
        ELSE NaNDistance

\* d < dist
DistLess(d, dist) == ~d.nan /\ ~dist.nan /\ BigLess(d.sq, dist.sq)

\* n / d for a distance d: the quotient is held as its numerator and the
\* square of its denominator.  0 / 0 and anything over NaN are NaN.
Quotient(n, d) ==
    IF ~IsNum(n) \/ d.nan \/ d.sq = <<0, 0, 0>>
    THEN [num |-> NaN, den |-> <<0, 0, 0>>]
    ELSE [num |-> n, den |-> d.sq]

\* -q
Negate(q) == IF IsNum(q.num) THEN [q EXCEPT !.num = -q.num] ELSE q

\* A quotient's value, where it is one of -1, 0, 1
IsOne(q) == IsNum(q.num) /\ q.num > 0 /\ Square(q.num) = q.den
IsMinusOne(q) == IsNum(q.num) /\ q.num < 0 /\ Square(q.num) = q.den
IsZero(q) == q.num = 0

----------------------------------------------------------------------------
(* Connection points and routing *)

\* Shape.connectionPoints: [x, y, nx, ny] for top, right, bottom, left
connectionPoints(s) ==
    LET x0 == s.x
        x1 == Add(s.x, Half(s.width))
        x2 == Add(s.x, s.width)
        y0 == s.y
        y1 == Add(s.y, Half(s.height))
        y2 == Add(s.y, s.height)
    IN  << <<x1, y0, 0, -1>>, <<x2, y1, 1, 0>>,
           <<x1, y2, 0, 1>>, <<x0, y1, -1, 0>> >>

\* let fromPoint, toPoint: undefined until a pair is taken
noPoint == <<>>

\* dist = 1000000, the distance the search starts from
StartDistance == 1000000

\* The pairs array: every from-point with every to-point, the to-points
\* innermost
Pairs(fromShape, toShape) ==
    LET fromPoints == connectionPoints(fromShape)
        toPoints == connectionPoints(toShape)
    IN  [k \in 1..16 |->
            LET fp == fromPoints[((k - 1) \div 4) + 1]
                tp == toPoints[((k - 1) % 4) + 1]
            IN  [fp |-> fp, tp |-> tp, d |-> distance(fp, tp)]]

\* The test with a slip: <= for <, so that a later pair at the same distance
\* replaces the best so far
CloserOrTied(d, dist) == ~d.nan /\ ~dist.nan /\ ~BigLess(dist.sq, d.sq)

\* if (d < dist): whether a pair replaces the best so far
Closer(d, dist) == DistLess(d, dist)

RECURSIVE Scan(_, _)
\* pairs.forEach over pairs 1..n: the best pair so far and its distance
Scan(pairs, n) ==
    IF n = 0
    THEN [dist |-> AsDistance(StartDistance * Unit),
          fromPoint |-> noPoint, toPoint |-> noPoint]
    ELSE LET best == Scan(pairs, n - 1)
         IN  IF Closer(pairs[n].d, best.dist)
             THEN [dist |-> pairs[n].d,
                   fromPoint |-> pairs[n].fp, toPoint |-> pairs[n].tp]
             ELSE best

findConnectionPoints(fromShape, toShape) ==
    LET best == Scan(Pairs(fromShape, toShape), 16)
    IN  <<best.fromPoint, best.toPoint>>

----------------------------------------------------------------------------
(* Markers and lines *)

\* The global registry: markers[markerId] is defined
markers == {"arrow"}

\* Arrow: length 12, width 8; Arrow.path
ArrowPath == "M0 0 L12 4 L12 -4"

\* Marker.render with a slip: the matrix written row by row,
\* matrix(nx, -ny, ny, nx, x, y)
MarkerRenderByRows(point) ==
    LET x == point[1]
        y == point[2]
        nx == point[3]
        ny == point[4]
    IN  [tag |-> "path",
         attrs |-> [d |-> ArrowPath,
                    transform |-> <<nx, Negate(ny), ny, nx, x, y>>]]

\* Marker.render(point), point = [x, y, nx, ny]
MarkerRender(point) ==
    LET x == point[1]
        y == point[2]
        nx == point[3]
        ny == point[4]
    IN  [tag |-> "path",
         attrs |-> [d |-> ArrowPath,
                    transform |-> <<nx, ny, Negate(ny), nx, x, y>>]]

\* What a function returns when it returns nothing; appendSvgElement
\* ignores it
noElement == [tag |-> "undefined"]

\* renderMarker with a slip: no test of what the registry returned, so that
\* any name renders
renderMarkerOfAnyName(markerId, thisPoint, otherPoint) ==
    LET x1 == thisPoint[1]
        y1 == thisPoint[2]
        x0 == otherPoint[1]
        y0 == otherPoint[2]
    IN  IF markerId = absent THEN noElement
        ELSE LET d == distance(thisPoint, otherPoint)
             IN  MarkerRender(<<x1, y1, Quotient(Sub(x0, x1), d),
                                Quotient(Sub(y0, y1), d)>>)

\* Line.renderMarker(markerId, thisPoint, otherPoint)
renderMarker(markerId, thisPoint, otherPoint) ==
    LET x1 == thisPoint[1]
        y1 == thisPoint[2]
        x0 == otherPoint[1]
        y0 == otherPoint[2]
    IN  IF markerId = absent THEN noElement
        ELSE IF markerId \notin markers THEN noElement
        ELSE LET d == distance(thisPoint, otherPoint)
             IN  MarkerRender(<<x1, y1, Quotient(Sub(x0, x1), d),
                                Quotient(Sub(y0, y1), d)>>)

\* new Line(props)
Line(from, to, fromMarker, toMarker) ==
    [from |-> from, to |-> to, fromMarker |-> fromMarker, toMarker |-> toMarker]

\* What shapeById returns when it finds nothing
null == [kind |-> "null"]

RECURSIVE ShapeShapeById(_, _)
RECURSIVE FirstById(_, _, _)

\* Shape.shapeById with a slip: the children are searched before the shape
\* itself is tested
ShapeShapeByIdChildrenFirst(s, id) ==
    LET result == FirstById(s.children, id, 1)
    IN  IF result # null THEN result
        ELSE IF s.id = id THEN s ELSE null

\* The loop of Diagram.shapeById and of Shape.shapeById over list from
\* index i on: the first truthy result
FirstById(list, id, i) ==
    IF i > Len(list) THEN null
    ELSE LET result == ShapeShapeById(list[i], id)
         IN  IF result # null THEN result ELSE FirstById(list, id, i + 1)

\* Shape.shapeById
ShapeShapeById(s, id) ==
    IF s.id = id THEN s
    ELSE FirstById(s.children, id, 1)

\* Diagram.shapeById
shapeById(diagram, id) == FirstById(diagram, id, 1)

\* Whether Line.render has two shapes to connect: from and to are given and
\* both resolve
Resolves(line, diagram) ==
    /\ line.from # absent
    /\ line.to # absent
    /\ shapeById(diagram, line.from) # null
    /\ shapeById(diagram, line.to) # null

\* attrs.d = `M${x0},${y0} L${x1},${y1}`
PathD(fromPoint, toPoint) ==
    [M |-> <<fromPoint[1], fromPoint[2]>>, L |-> <<toPoint[1], toPoint[2]>>]

\* The last branch of Line.render, for the two shapes found: what it
\* returns, or that it threw: destructuring an undefined point is a
\* TypeError
Connect(line, fromShape, toShape) ==
    LET points == findConnectionPoints(fromShape, toShape)
        fromPoint == points[1]
        toPoint == points[2]
    IN  IF fromPoint = noPoint \/ toPoint = noPoint
        THEN [threw |-> TRUE, paths |-> <<>>]
        ELSE [threw |-> FALSE,
              paths |-> <<
                [tag |-> "path", attrs |-> [d |-> PathD(fromPoint, toPoint)]],
                renderMarker(line.fromMarker, fromPoint, toPoint),
                renderMarker(line.toMarker, toPoint, fromPoint) >>]

\* Line.render with a slip: no check that the shapes were found, so that
\* reading the connection points of null throws
LineRenderUnchecked(line, diagram) ==
    IF line.from = absent \/ line.to = absent
    THEN [threw |-> FALSE, paths |-> <<>>]
    ELSE IF shapeById(diagram, line.from) = null
            \/ shapeById(diagram, line.to) = null
    THEN [threw |-> TRUE, paths |-> <<>>]
    ELSE Connect(line, shapeById(diagram, line.from),
                 shapeById(diagram, line.to))

\* Line.render(diagram): what it returns (nothing when it only warns), or
\* that it threw
LineRender(line, diagram) ==
    IF ~Resolves(line, diagram)
    THEN [threw |-> FALSE, paths |-> <<>>]
    ELSE Connect(line, shapeById(diagram, line.from),
                 shapeById(diagram, line.to))

----------------------------------------------------------------------------
(* The diagram's operations *)

\* appendSvgElement(parent, psvg): nothing is appended for undefined
appendSvgElement(children, psvg) ==
    IF psvg = noElement THEN children ELSE Append(children, psvg)

RECURSIVE AppendAll(_, _, _)
\* list.forEach(psvg => appendSvgElement(el, psvg)) over elements 1..n
AppendAll(children, list, n) ==
    IF n = 0 THEN children
    ELSE appendSvgElement(AppendAll(children, list, n - 1), list[n])

\* The test with a slip: && for ||
SkippedLackingBoth(shape) == shape.x = undefined /\ shape.y = undefined

\* The test of renderInto that skips a top-level shape
Skipped(shape) == shape.x = undefined \/ shape.y = undefined

RECURSIVE RenderShapes(_, _, _)
\* this.shapes.forEach of renderInto over shapes 1..n: the shapes as laid out
\* and rendered, and the element's children
RenderShapes(list, children, n) ==
    IF n = 0 THEN [shapes |-> <<>>, children |-> children]
    ELSE LET before == RenderShapes(list, children, n - 1)
             shape == list[n]
             laid == layout(shape)
             r == render(laid, laid.x, laid.y)
         IN  IF Skipped(shape)
             THEN [shapes |-> Append(before.shapes, shape),
                   children |-> before.children]
             ELSE [shapes |-> Append(before.shapes, r.shape),
                   children |-> AppendAll(before.children, r.result,
                                          Len(r.result))]

RECURSIVE RenderLines(_, _, _, _)
\* this.lines.forEach of renderInto over lines 1..n; a line that throws ends
\* the loop and the call
RenderLines(list, diagram, children, n) ==
    IF n = 0 THEN [threw |-> FALSE, children |-> children]
    ELSE LET before == RenderLines(list, diagram, children, n - 1)
             r == LineRender(list[n], diagram)
         IN  IF before.threw THEN before
             ELSE IF r.threw THEN [threw |-> TRUE, children |-> before.children]
             ELSE [threw |-> FALSE,
                   children |-> AppendAll(before.children, r.paths,
                                          Len(r.paths))]

\* Diagram.renderInto(el): the shapes, the element's children, and whether
\* the call threw
renderInto(diagram, connectors, children) ==
    LET s == RenderShapes(diagram, children, Len(diagram))
        l == RenderLines(connectors, s.shapes, s.children, Len(connectors))
    IN  [shapes |-> s.shapes, children |-> l.children, threw |-> l.threw]

RECURSIVE Column(_, _, _)
\* this.shapes.map(f) for the four maps of shrinkWrap
Column(list, what, n) ==
    IF n = 0 THEN <<>>
    ELSE Append(Column(list, what, n - 1),
           CASE what = "x" -> list[n].x
             [] what = "y" -> list[n].y
             [] what = "right" -> Add(list[n].x, list[n].width)
             [] what = "bottom" -> Add(list[n].y, list[n].height))

\* Math.max(0, v)
Max0(v) == MathMax(<<0, v>>)

\* shrinkWrap with a slip: the canvas cropped to the shapes, right - left by
\* bottom - top
shrinkWrapCropped(diagram, attached, element) ==
    IF ~attached THEN element
    ELSE IF Len(diagram) = 0 THEN element
    ELSE LET n == Len(diagram)
             left == Max0(MathMin(Column(diagram, "x", n)))
             top == Max0(MathMin(Column(diagram, "y", n)))
             right == MathMax(Column(diagram, "right", n))
             bottom == MathMax(Column(diagram, "bottom", n))
         IN  [element EXCEPT !.width = Sub(right, left),
                             !.height = Sub(bottom, top)]

\* Diagram.shrinkWrap: the element's size
shrinkWrap(diagram, attached, element) ==
    IF ~attached THEN element
    ELSE IF Len(diagram) = 0 THEN element
    ELSE LET n == Len(diagram)
             left == Max0(MathMin(Column(diagram, "x", n)))
             top == Max0(MathMin(Column(diagram, "y", n)))
             right == MathMax(Column(diagram, "right", n))
             bottom == MathMax(Column(diagram, "bottom", n))
         IN  [element EXCEPT !.width = Add(left, right),
                             !.height = Add(top, bottom)]

\* The number of renderInto calls explored
MaxRenders == 2

\* The <svg> elements of index.html
SvgWidth == 400
SvgHeight == 300

RenderInto ==
    /\ last.renders < MaxRenders
    /\ \E r \in {renderInto(shapes, lines, svg.children)} :
           /\ shapes' = r.shapes
           /\ svg' = [svg EXCEPT !.children = r.children]
           /\ last' = [op |-> "renderInto", arg |-> 0, pre |-> shapes,
                       threw |-> r.threw, renders |-> last.renders + 1,
                       element |-> svg]
    /\ el' = TRUE
    /\ UNCHANGED lines

ShrinkWrap ==
    /\ svg' = shrinkWrap(shapes, el, svg)
    /\ last' = [op |-> "shrinkWrap", arg |-> 0, pre |-> shapes,
                threw |-> FALSE, renders |-> last.renders, element |-> svg]
    /\ UNCHANGED <<shapes, lines, el>>

\* shape.layout() called on top-level shape i
Layout(i) ==
    /\ shapes' = [shapes EXCEPT ![i] = layout(shapes[i])]
    /\ last' = [op |-> "layout", arg |-> i, pre |-> shapes,
                threw |-> FALSE, renders |-> last.renders, element |-> svg]
    /\ UNCHANGED <<lines, el, svg>>

\* diagram.shapeById(id), called by a client: what it returned is kept in
\* last.found
ShapeById(id) ==
    /\ last' = [op |-> "shapeById", arg |-> id, pre |-> shapes,
                threw |-> FALSE, renders |-> last.renders, element |-> svg,
                found |-> shapeById(shapes, id)]
    /\ UNCHANGED <<shapes, lines, el, svg>>

\* The state after new Diagram(shapes, lines), before any call
Fresh(diagram, connectors) ==
    /\ shapes = diagram
    /\ lines = connectors
    /\ el = FALSE
    /\ svg = [width |-> SvgWidth * Unit, height |-> SvgHeight * Unit,
              children |-> <<>>]
    /\ last = [op |-> "new", arg |-> 0, pre |-> diagram, threw |-> FALSE,
               renders |-> 0, element |-> svg]

----------------------------------------------------------------------------
(* Inputs *)

\* The most children of a box drawn here
MaxChildren == 2

RECURSIVE SeqsUpTo(_, _)
\* The sequences over S of length 0..n
SeqsUpTo(S, n) ==
    IF n = 0 THEN {<<>>}
    ELSE LET shorter == SeqsUpTo(S, n - 1)
         IN  shorter \cup {Append(q, e) : q \in {r \in shorter : Len(r) = n - 1},
                                          e \in S}

\* A child: no id, no x, no y
ChildText(text) == Text(absent, undefined, undefined, text)
ChildBox(kind, width, height, padding, spacing, align, valign, children) ==
    Box(kind, absent, undefined, undefined, width, height, padding, spacing,
        align, valign, children)

Texts == {ChildText("a"), ChildText("bb")}

\* Nested boxes: content-sized, forced to 0 by 0, and forced and empty
NestedBoxes ==
    { ChildBox("Vbox", undefined, undefined, PadNumber(5 * Unit), 5 * Unit,
               "right", absent, <<ChildText("a"), ChildText("bb")>>),
      ChildBox("Hbox", 0, 0, PadNumber(0), 0, absent, absent,
               <<ChildText("a")>>),
      ChildBox("Vbox", 40 * Unit, 30 * Unit, PadNumber(0), 0, absent, absent,
               <<>>) }

ForcedSizes == {undefined, 0, 60 * Unit}
LayoutPaddings == {PadNumber(0), PadArray(<<5 * Unit, 10 * Unit, 15 * Unit, 20 * Unit>>)}
Spacings == {0, 5 * Unit}
Aligns == {absent, "left", "right"}
Valigns == {absent, "top", "bottom"}

\* The trees layout() is checked on: one top-level box at (0, 0)
LayoutTrees ==
    { Box(kind, "top", 0, 0, width, height, padding, spacing, align, valign,
          children) :
        kind \in {"Vbox", "Hbox"}, width \in ForcedSizes, height \in ForcedSizes,
        padding \in LayoutPaddings, spacing \in Spacings,
        align \in Aligns, valign \in Valigns,
        children \in SeqsUpTo(Texts \cup NestedBoxes, MaxChildren) }

InitLayout == \E tree \in LayoutTrees : Fresh(<<tree>>, <<>>)

NextLayout == \E i \in 1..Len(shapes) : Layout(i)

SpecLayout == InitLayout /\ [][NextLayout]_vars

\* A top-level box of a forced size and no children
BoxAt(id, x, y, width, height) ==
    Box("Vbox", id, x, y, width, height, PadNumber(0), 0, absent, absent, <<>>)

\* How far apart shapes are drawn: past the distance the search starts from
Far == 2000000

RouteX == {0, 20 * Unit, 200 * Unit, Far * Unit}
RouteY == {0, 20 * Unit, 200 * Unit}

\* Two boxes a and b, anywhere on a grid
RouteDiagrams ==
    { <<BoxAt("a", xa, ya, 80 * Unit, 60 * Unit), BoxAt("b", xb, yb, size[1], size[2])>> :
        xa \in RouteX, ya \in RouteY, xb \in RouteX, yb \in RouteY,
        size \in {<<80 * Unit, 60 * Unit>>, <<40 * Unit, 20 * Unit>>} }

MarkerIds == {absent, "arrow", "diamond"}

\* One line between them, either way or from a to itself, with any markers
RouteLines ==
    { <<Line(ends[1], ends[2], fromMarker, toMarker)>> :
        ends \in {<<"a", "b">>, <<"b", "a">>, <<"a", "a">>},
        fromMarker \in MarkerIds, toMarker \in MarkerIds }

InitRoute ==
    \E diagram \in RouteDiagrams, connectors \in RouteLines :
        Fresh(diagram, connectors)

NextRoute == RenderInto

SpecRoute == InitRoute /\ [][NextRoute]_vars

\* The diagrams drawn: boxes with ids, one with children, a top-level text,
\* and a box with no x
ShapeA == BoxAt("a", 10 * Unit, 10 * Unit, 40 * Unit, 20 * Unit)
ShapeB == BoxAt("b", -5 * Unit, 30 * Unit, 20 * Unit, 20 * Unit)
ShapeC ==
    Box("Hbox", "c", 100 * Unit, 10 * Unit, undefined, undefined,
        PadNumber(5 * Unit), 10 * Unit, absent, absent,
        << BoxAt("d", undefined, undefined, 40 * Unit, 30 * Unit),
           Text("t", undefined, undefined, "a") >>)
ShapeE == Text("e", 60 * Unit, 80 * Unit, "bb")
ShapeF == BoxAt("f", undefined, 10 * Unit, 40 * Unit, 20 * Unit)

Diagrams ==
    { <<>>, <<ShapeA>>, <<ShapeB>>, <<ShapeE>>, <<ShapeF>>,
      <<ShapeA, ShapeB>>, <<ShapeB, ShapeA>>, <<ShapeA, ShapeC>>,
      <<ShapeA, ShapeE>>, <<ShapeA, ShapeF>>, <<ShapeF, ShapeB>>,
      <<ShapeA, ShapeB, ShapeC>>, <<ShapeC, ShapeB, ShapeE>> }

\* The most lines of a diagram drawn here
MaxLines == 3

\* The lines drawn: two that connect a and b or d, and four with an end
\* missing or naming no shape
LineInputs ==
    { Line("a", "b", absent, "arrow"), Line("d", "a", "arrow", absent),
      Line(absent, "b", absent, absent), Line("a", absent, absent, "arrow"),
      Line("zz", "b", "arrow", absent), Line("a", "zz", absent, "arrow") }

Init ==
    \E diagram \in Diagrams, connectors \in SeqsUpTo(LineInputs, MaxLines) :
        Fresh(diagram, connectors)

Next == RenderInto \/ ShrinkWrap

Spec == Init /\ [][Next]_vars

\* The padding values drawn: 0, 5, ..., 5 * MaxPad
MaxPad == 4
PadValues == {5 * k * Unit : k \in 0..MaxPad}

\* Every padding that is a number or an array of 1 to 4 numbers
AllPaddings ==
    {PadNumber(a) : a \in PadValues}
    \cup {PadArray(l) : l \in SeqsUpTo(PadValues, 4) \ {<<>>}}

\* The trees padding is checked on: a box of one text
PaddingTrees ==
    { Box(kind, "top", 0, 0, undefined, undefined, padding, 0, absent, absent,
          <<ChildText("a")>>) :
        kind \in {"Vbox", "Hbox"}, padding \in AllPaddings }

InitPadding == \E tree \in PaddingTrees : Fresh(<<tree>>, <<>>)

SpecPadding == InitPadding /\ [][NextLayout]_vars

\* A box that holds the first of the nested boxes and a text: with the box
\* it is put in, three boxes deep
DeepBoxes ==
    { ChildBox("Hbox", undefined, undefined,
               PadArray(<<5 * Unit, 10 * Unit>>), 5 * Unit, absent, "bottom",
               <<b, ChildText("a")>>) :
        b \in {c \in NestedBoxes : Len(c.children) = 2} }

\* The trees render() is checked on: one top-level box at (10, 20), sized by
\* its content
RenderTrees ==
    { Box(kind, "top", 10 * Unit, 20 * Unit, undefined, undefined, padding,
          spacing, align, absent, children) :
        kind \in {"Vbox", "Hbox"}, padding \in LayoutPaddings,
        spacing \in Spacings, align \in Aligns,
        children \in SeqsUpTo(Texts \cup NestedBoxes \cup DeepBoxes, MaxChildren) }

InitRender == \E tree \in RenderTrees : Fresh(<<tree>>, <<>>)

SpecRender == InitRender /\ [][NextRoute]_vars

\* A child of a client's own Shape subclass: no size until its layout()
\* gives it one
ChildCustom ==
    [Text(absent, undefined, undefined, "") EXCEPT !.kind = "Custom"]

\* The trees a defective child is checked on: one top-level box that holds
\* texts and shapes whose layout() defines no size
DefectTrees ==
    { Box(kind, "top", 0, 0, width, height, PadNumber(5 * Unit), 5 * Unit,
          align, valign, children) :
        kind \in {"Vbox", "Hbox"}, width \in ForcedSizes, height \in ForcedSizes,
        align \in Aligns, valign \in Valigns,
        children \in SeqsUpTo(Texts \cup {ChildCustom}, MaxChildren) }

InitDefect == \E tree \in DefectTrees : Fresh(<<tree>>, <<>>)

SpecDefect == InitDefect /\ [][NextLayout]_vars

\* The trees containment is checked on: one top-level box with no size or
\* with room for most contents, on either axis
RoomySizes == {undefined, 100 * Unit}
ContainTrees ==
    { Box(kind, "top", 0, 0, width, height, padding, spacing, align, valign,
          children) :
        kind \in {"Vbox", "Hbox"}, width \in RoomySizes, height \in RoomySizes,
        padding \in LayoutPaddings, spacing \in Spacings,
        align \in Aligns, valign \in Valigns,
        children \in SeqsUpTo(Texts \cup NestedBoxes, MaxChildren) }

InitContain == \E tree \in ContainTrees : Fresh(<<tree>>, <<>>)

SpecContain == InitContain /\ [][NextLayout]_vars

\* A box with no y that holds the box h
ShapeG ==
    Box("Hbox", "g", 100 * Unit, undefined, undefined, undefined,
        PadNumber(5 * Unit), 0, absent, absent,
        << BoxAt("h", undefined, undefined, 40 * Unit, 30 * Unit) >>)

\* Diagrams of the box a with shapes that lack x or y, and the lines drawn
\* on them: to and from the shape f that is skipped, to the shape h inside
\* one that is skipped, and between shapes that are rendered
SkipDiagrams ==
    { <<ShapeA, ShapeF>>, <<ShapeF, ShapeA>>, <<ShapeA, ShapeG>>,
      <<ShapeA, ShapeB, ShapeF>>, <<ShapeG, ShapeA, ShapeB>>, <<ShapeA, ShapeB>> }

SkipLines ==
    { Line("a", "f", absent, "arrow"), Line("f", "a", absent, absent),
      Line("a", "h", "arrow", absent), Line("a", "b", absent, "arrow") }

InitSkip ==
    \E diagram \in SkipDiagrams, connectors \in SeqsUpTo(SkipLines, MaxLines) :
        Fresh(diagram, connectors)

SpecSkip == InitSkip /\ [][Next]_vars

\* The trees shapeById is checked on: texts and boxes two and three levels
\* deep, whose ids are drawn from two names, several nodes sharing one
IdLeaves == {Text(id, undefined, undefined, "a") : id \in {"a", "b"}}
IdBoxes ==
    { Box("Vbox", id, 0, 0, undefined, undefined, PadNumber(0), 0, absent,
          absent, children) :
        id \in {"a", "b", absent}, children \in SeqsUpTo(IdLeaves, MaxChildren) }
IdNests ==
    { Box("Hbox", id, 0, 0, undefined, undefined, PadNumber(0), 0, absent,
          absent, children) :
        id \in {"a", absent},
        children \in UNION { {<<m>>, <<m, l>>, <<l, m>>} :
                                m \in IdBoxes, l \in IdLeaves } }
IdDiagrams ==
    {<<s>> : s \in IdNests} \cup {<<s, t>> : s \in IdBoxes, t \in IdBoxes}

\* The ids looked up: two that shapes have and one that none has
FindIds == {"a", "b", "zz"}

InitById == \E diagram \in IdDiagrams : Fresh(diagram, <<>>)

NextById == \E id \in FindIds : ShapeById(id)

SpecById == InitById /\ [][NextById]_vars

----------------------------------------------------------------------------
(* What the claims are stated with *)

RECURSIVE NodePairs(_, _)
\* A tree before and after a call, node by node: the pairs <<before, after>>
NodePairs(pre, post) ==
    {<<pre, post>>} \cup
    UNION { NodePairs(pre.children[i], post.children[i]) :
                i \in 1..Len(pre.children) }

\* The node pairs of the last layout() call
LaidOut ==
    IF last.op = "layout"
    THEN NodePairs(last.pre[last.arg], shapes[last.arg])
    ELSE {}

IsBox(s) == s.kind \in {"Vbox", "Hbox"}

\* The CSS shorthand for padding, as documented at the Box constructor
CssEdges(padding) ==
    LET l == padding.list
    IN  IF padding.isNumber \/ Len(l) = 1
          THEN [top |-> l[1], right |-> l[1], bottom |-> l[1], left |-> l[1]]
        ELSE IF Len(l) = 2
          THEN [top |-> l[1], right |-> l[2], bottom |-> l[1], left |-> l[2]]
        ELSE IF Len(l) = 3
          THEN [top |-> l[1], right |-> l[2], bottom |-> l[3], left |-> l[2]]
        ELSE [top |-> l[1], right |-> l[2], bottom |-> l[3], left |-> l[4]]

\* A box's axes: the one it stacks its children on and the other
StackAxis(s) == IF s.kind = "Vbox" THEN "height" ELSE "width"
CrossAxis(s) == IF s.kind = "Vbox" THEN "width" ELSE "height"
OffsetOn(axis) == IF axis = "height" THEN "dy" ELSE "dx"
LeadingPad(s, axis) ==
    IF axis = "height" THEN CssEdges(s.padding).top ELSE CssEdges(s.padding).left
TrailingPad(s, axis) ==
    IF axis = "height" THEN CssEdges(s.padding).bottom
    ELSE CssEdges(s.padding).right
AlignKey(s, axis) == IF axis = "height" THEN s.valign ELSE s.align
LeadingKey(axis) == IF axis = "height" THEN "top" ELSE "left"
TrailingKey(axis) == IF axis = "height" THEN "bottom" ELSE "right"

RECURSIVE SumExtents(_, _, _)
\* The sum of the extents of children 1..n on an axis
SumExtents(kids, axis, n) ==
    IF n = 0 THEN 0 ELSE SumExtents(kids, axis, n - 1) + kids[n][axis]

\* The largest extent of the children on an axis
MaxExtent(kids, axis) ==
    CHOOSE m \in {kids[i][axis] : i \in 1..Len(kids)} :
        \A i \in 1..Len(kids) : kids[i][axis] <= m

\* The content extent the spec gives for the stacking axis
Content(s, kids, axis) ==
    IF Len(kids) = 0 THEN 0
    ELSE SumExtents(kids, axis, Len(kids)) + (Len(kids) - 1) * s.spacing

\* The share of the slack that goes before the content
Share(s, axis, slack) ==
    IF AlignKey(s, axis) = LeadingKey(axis) THEN 0
    ELSE IF AlignKey(s, axis) = TrailingKey(axis) THEN slack
    ELSE slack \div 2

----------------------------------------------------------------------------
(* C1 *)

C1At(pre, post) ==
    LET axis == StackAxis(pre)
        kids == post.children
        n == Len(kids)
        content == StackExtent(pre, kids, axis, n)
    IN  (IsBox(pre) /\ pre[axis] = undefined) =>
            /\ content = Content(pre, kids, axis)
            /\ post[axis] = LeadingPad(pre, axis) + content + TrailingPad(pre, axis)
            /\ n = 0 => /\ content = 0
                        /\ CrossExtent(kids, CrossAxis(pre), n) = 0

\* C1: after layout() of a Vbox or Hbox whose stacking axis has no forced
\* size, the content extent on that axis is the sum of the children's
\* extents plus (N-1) * spacing, and the box's size on that axis is that
\* extent plus the padding on both ends; with no children the content extent
\* is 0 on both axes.
C1_ContentExtent == \A p \in LaidOut : C1At(p[1], p[2])

\* An unforced Vbox of two children and a spacing has been laid out
C1_Witness ==
    /\ last.op = "layout"
    /\ last.pre[1].kind = "Vbox"
    /\ last.pre[1].height = undefined
    /\ Len(shapes[1].children) = 2
    /\ shapes[1].spacing > 0
    /\ shapes[1].height =
         CssEdges(shapes[1].padding).top + shapes[1].children[1].height
         + shapes[1].spacing + shapes[1].children[2].height
         + CssEdges(shapes[1].padding).bottom

----------------------------------------------------------------------------
(* C3 *)

C3At(pre, post) ==
    IsBox(pre) =>
        /\ pre.width # undefined => post.width = pre.width
        /\ pre.height # undefined => post.height = pre.height

\* C3: a box with a forced width or height has exactly that width or height
\* after layout(), for every forced value, 0 included.
C3_ForcedSizeKept == \A p \in LaidOut : C3At(p[1], p[2])

----------------------------------------------------------------------------
(* C4 *)

\* C4: layout() is idempotent: a layout() call on a tree that the call before
\* it laid out changes nothing.
C4_LayoutIdempotent ==
    [][(last.op = "layout" /\ last'.op = "layout" /\ last'.arg = last.arg)
         => shapes' = shapes]_vars

----------------------------------------------------------------------------
(* C5 *)

C5At(pre, post) ==
    LET axis == StackAxis(pre)
        off == OffsetOn(axis)
        kids == post.children
        n == Len(kids)
        slack == pre[axis] - LeadingPad(pre, axis) - TrailingPad(pre, axis)
                 - Content(pre, kids, axis)
    IN  (IsBox(pre) /\ pre[axis] # undefined /\ n > 0) =>
            /\ kids[1][off] = LeadingPad(pre, axis) + Share(pre, axis, slack)
            /\ \A k \in 2..n :
                 kids[k][off] = kids[k - 1][off] + kids[k - 1][axis] + pre.spacing

\* C5: on the stacking axis of a box with a forced size on that axis, the
\* first child's offset is the leading padding plus 0, the whole slack or
\* half the slack (leading key, trailing key, any other key), the slack being
\* forced size - padding on both ends - content extent, negative or not; each
\* following child is at the previous child's offset plus its extent plus
\* the spacing.
C5_StackingOffsets == \A p \in LaidOut : C5At(p[1], p[2])

\* A Vbox forced to less than its content, aligned to the bottom, has been
\* laid out: its first child starts above the top padding
C5_Witness ==
    /\ last.op = "layout"
    /\ last.pre[1].kind = "Vbox"
    /\ last.pre[1].height = 60 * Unit
    /\ last.pre[1].valign = "bottom"
    /\ Len(shapes[1].children) = 2
    /\ shapes[1].children[1].dy < CssEdges(shapes[1].padding).top

----------------------------------------------------------------------------
(* C6 *)

C6At(pre, post) ==
    LET axis == CrossAxis(pre)
        off == OffsetOn(axis)
        kids == post.children
        slack(k) ==
            IF pre[axis] = undefined
            THEN MaxExtent(kids, axis) - kids[k][axis]
            ELSE pre[axis] - LeadingPad(pre, axis) - TrailingPad(pre, axis)
                 - kids[k][axis]
    IN  IsBox(pre) =>
            \A k \in 1..Len(kids) :
                kids[k][off] = LeadingPad(pre, axis) + Share(pre, axis, slack(k))

----------------------------------------------------------------------------
(* C2 *)

\* The four edges as the box resolves them
Edges(s) ==
    [top |-> paddingTop(s), right |-> paddingRight(s),
     bottom |-> paddingBottom(s), left |-> paddingLeft(s)]

\* The entries of a padding are all a
Uniform(padding, a) == \A i \in 1..Len(padding.list) : padding.list[i] = a

\* C2: the four padding edges of every box follow the CSS shorthand: a or [a]
\* is a on all edges, [a,b] is top = bottom = a and left = right = b, [a,b,c]
\* is top a, left = right = b, bottom c, and [a,b,c,d] is top, right, bottom,
\* left; so a padding whose entries are all a resolves as the number a does.
C2_PaddingShorthand ==
    \A i \in 1..Len(shapes) :
        \A p \in NodePairs(shapes[i], shapes[i]) :
            IsBox(p[1]) =>
                /\ Edges(p[1]) = CssEdges(p[1].padding)
                /\ \A a \in PadValues :
                     Uniform(p[1].padding, a) =>
                        Edges(p[1]) = [top |-> a, right |-> a, bottom |-> a,
                                       left |-> a]

\* A box of padding [5, 10, 15] has been laid out with its child at the left
\* padding 10 and the top padding 5, and is 15 taller than where the child
\* ends
C2_Witness ==
    /\ last.op = "layout"
    /\ shapes[1].padding = PadArray(<<5 * Unit, 10 * Unit, 15 * Unit>>)
    /\ Edges(shapes[1]) = [top |-> 5 * Unit, right |-> 10 * Unit,
                           bottom |-> 15 * Unit, left |-> 10 * Unit]
    /\ shapes[1].children[1].dx = 10 * Unit
    /\ shapes[1].children[1].dy = 5 * Unit
    /\ shapes[1].height = 5 * Unit + shapes[1].children[1].height + 15 * Unit

----------------------------------------------------------------------------
(* What the claims on rendering are stated with *)

\* The elements the last call appended
Out ==
    SubSeq(svg.children, Len(last.element.children) + 1, Len(svg.children))

IsLinePath(e) == e.tag = "path" /\ "transform" \notin DOMAIN e.attrs
IsGlyph(e) == e.tag = "path" /\ "transform" \in DOMAIN e.attrs

RECURSIVE Nodes(_)
\* The nodes of a tree
Nodes(s) == {s} \cup UNION {Nodes(s.children[i]) : i \in 1..Len(s.children)}

\* The shapes of the diagram, nested ones included
AllNodes == UNION {Nodes(shapes[i]) : i \in 1..Len(shapes)}

Named(id) == {s \in AllNodes : s.id = id}

\* The midpoints of the four sides of a shape
Midpoints(s) ==
    { <<s.x + s.width \div 2, s.y>>, <<s.x + s.width, s.y + s.height \div 2>>,
      <<s.x + s.width \div 2, s.y + s.height>>, <<s.x, s.y + s.height \div 2>> }

\* The square of the distance between two points
Apart(p, q) == BigAdd(Square(q[1] - p[1]), Square(q[2] - p[2]))

\* Two shapes share no interior point
Disjoint(f, t) ==
    \/ f.x + f.width <= t.x
    \/ t.x + t.width <= f.x
    \/ f.y + f.height <= t.y
    \/ t.y + t.height <= f.y

\* The line has both ends and each names a shape of the diagram
Connects(line) ==
    /\ line.from # absent
    /\ line.to # absent
    /\ Named(line.from) # {}
    /\ Named(line.to) # {}

----------------------------------------------------------------------------
(* C7 *)

\* C7: after renderInto, every line between two rendered shapes that do not
\* overlap has a path from a side midpoint of its from-shape to a side
\* midpoint of its to-shape, and no pair of their side midpoints is strictly
\* closer.
C7_ClosestPair ==
    last.op = "renderInto" =>
        \A k \in 1..Len(lines) :
            Connects(lines[k]) =>
                \A f \in Named(lines[k].from), t \in Named(lines[k].to) :
                    Disjoint(f, t) =>
                        \E j \in 1..Len(Out) :
                            /\ IsLinePath(Out[j])
                            /\ Out[j].attrs.d.M \in Midpoints(f)
                            /\ Out[j].attrs.d.L \in Midpoints(t)
                            /\ \A p \in Midpoints(f), q \in Midpoints(t) :
                                 ~BigLess(Apart(p, q),
                                          Apart(Out[j].attrs.d.M,
                                                Out[j].attrs.d.L))

----------------------------------------------------------------------------
(* C8 *)

\* The glyphs a line's path is followed by, given the path's ends: the
\* glyph of the from end, then the glyph of the to end
GlyphAt(here, there) ==
    LET dx == there[1] - here[1]
        dy == there[2] - here[2]
        len == [nan |-> FALSE, sq |-> Apart(here, there)]
    IN  <<Quotient(dx, len), Quotient(dy, len), Quotient(-dy, len),
          Quotient(dx, len), here[1], here[2]>>

\* The value of a quotient that is -1, 0 or 1
Sign(q) == IF IsOne(q) THEN 1 ELSE IF IsMinusOne(q) THEN -1 ELSE 0

\* C8: every glyph is placed with matrix(nx, ny, -ny, nx, x, y), (x, y) being
\* the end of the line it marks and (nx, ny) the direction to the line's
\* other end; along an axis the linear part has only the entries -1, 0, 1
\* and determinant 1.
C8_MarkerTransform ==
    last.op = "renderInto" =>
        \A j \in 1..Len(Out) :
            IsLinePath(Out[j]) =>
                LET from == Out[j].attrs.d.M
                    to == Out[j].attrs.d.L
                    line == lines[1]
                    atFrom == line.fromMarker \in markers
                    atTo == line.toMarker \in markers
                    t(g) == Out[g].attrs.transform
                    axis(g) == from # to /\ (from[1] = to[1] \/ from[2] = to[2])
                    rotation(g) ==
                        /\ \A c \in 1..4 :
                             IsOne(t(g)[c]) \/ IsMinusOne(t(g)[c]) \/ IsZero(t(g)[c])
                        /\ Sign(t(g)[1]) * Sign(t(g)[4])
                           - Sign(t(g)[2]) * Sign(t(g)[3]) = 1
                IN  /\ Len(Out) = j + (IF atFrom THEN 1 ELSE 0)
                                    + (IF atTo THEN 1 ELSE 0)
                    /\ atFrom => /\ IsGlyph(Out[j + 1])
                                 /\ t(j + 1) = GlyphAt(from, to)
                                 /\ axis(j + 1) => rotation(j + 1)
                    /\ atTo => LET g == j + (IF atFrom THEN 2 ELSE 1)
                               IN  /\ IsGlyph(Out[g])
                                   /\ t(g) = GlyphAt(to, from)
                                   /\ axis(g) => rotation(g)

\* A line from (100, 50) to the right has been rendered with a marker at its
\* from end: the glyph's transform is matrix(1, 0, 0, 1, 100, 50)
C8_Witness ==
    /\ last.op = "renderInto"
    /\ \E j \in 1..Len(Out) :
         /\ IsGlyph(Out[j])
         /\ IsOne(Out[j].attrs.transform[1])
         /\ IsZero(Out[j].attrs.transform[2])
         /\ IsZero(Out[j].attrs.transform[3])
         /\ IsOne(Out[j].attrs.transform[4])
         /\ Out[j].attrs.transform[5] = 100 * Unit
         /\ Out[j].attrs.transform[6] = 50 * Unit

----------------------------------------------------------------------------
(* C9 *)

SetMin(S) == CHOOSE m \in S : \A v \in S : m <= v
SetMax(S) == CHOOSE m \in S : \A v \in S : v <= m

TopLevel == {shapes[i] : i \in 1..Len(shapes)}

\* No top-level shape lacks x or y
NoneSkipped == \A s \in TopLevel : s.x # undefined /\ s.y # undefined

\* The sizes shrinkWrap is said to set
C9Sizes ==
    last.op = "shrinkWrap" =>
        IF el /\ Len(shapes) > 0
        THEN NoneSkipped =>
               LET left == SetMax({0, SetMin({s.x : s \in TopLevel})})
                   top == SetMax({0, SetMin({s.y : s \in TopLevel})})
                   right == SetMax({s.x + s.width : s \in TopLevel})
                   bottom == SetMax({s.y + s.height : s \in TopLevel})
               IN  /\ svg.width = left + right
                   /\ svg.height = top + bottom
                   /\ svg.children = last.element.children
        ELSE svg = last.element

\* The example: shapes at (10, 10, 40, 20) and (-5, 30, 20, 20), rendered and
\* shrink-wrapped
C9Example ==
    /\ last.op = "shrinkWrap"
    /\ el
    /\ shapes = <<ShapeA, ShapeB>>

----------------------------------------------------------------------------
(* C10 *)

\* The markers a line names that are registered
Glyphs(line) ==
    (IF line.fromMarker \in markers THEN 1 ELSE 0)
    + (IF line.toMarker \in markers THEN 1 ELSE 0)

RECURSIVE LineElements(_, _)
\* The elements of lines 1..n that have both ends: a path and its glyphs
LineElements(list, n) ==
    IF n = 0 THEN 0
    ELSE LineElements(list, n - 1)
         + (IF Connects(list[n]) THEN 1 + Glyphs(list[n]) ELSE 0)

\* The elements of the top-level shapes that have x and y: one a node
ShapeElements ==
    Cardinality(UNION {Nodes(s) : s \in {t \in TopLevel :
                                           t.x # undefined /\ t.y # undefined}})

\* C10: a line with an end missing, or naming no shape, adds no element, and
\* renderInto appends what it appends for the diagram without such lines:
\* the elements of the shapes, then those of the other lines, in order.
C10_DefectiveLineSkipped ==
    last.op = "renderInto" =>
        LET without == renderInto(last.pre, SelectSeq(lines, Connects),
                                  last.element.children)
        IN  /\ svg.children = without.children
            /\ shapes = without.shapes
            /\ last.threw = without.threw
            /\ ~last.threw =>
                 Len(Out) = ShapeElements + LineElements(lines, Len(lines))

\* A diagram of a and b with a line naming no shape between two lines from a
\* to b has been rendered: two boxes, and a path and a glyph for each of the
\* two
C10_Witness ==
    /\ last.op = "renderInto"
    /\ shapes = <<ShapeA, ShapeB>>
    /\ lines = << Line("a", "b", absent, "arrow"), Line("a", "zz", absent, "arrow"),
                  Line("a", "b", absent, "arrow") >>
    /\ Len(Out) = 6
    /\ IsLinePath(Out[3]) /\ IsGlyph(Out[4])
    /\ IsLinePath(Out[5]) /\ IsGlyph(Out[6])
    /\ Out[5] = Out[3]

----------------------------------------------------------------------------
(* C11 *)

\* A top-level shape lacks x or y
Lacks(s) == s.x = undefined \/ s.y = undefined

RECURSIVE DrawnUpTo(_, _)
\* What shapes 1..n of a list that have x and y return when each is laid out
\* and rendered at its own (x, y), one after the other
DrawnUpTo(list, n) ==
    IF n = 0 THEN <<>>
    ELSE IF Lacks(list[n]) THEN DrawnUpTo(list, n - 1)
    ELSE DrawnUpTo(list, n - 1)
         \o render(layout(list[n]), list[n].x, list[n].y).result

----------------------------------------------------------------------------
(* C12 *)

\* Where the glyphs of an end are: one at the end's point when the end names
\* a registered marker, none when it names no marker or an unknown one
GlyphsOf(marker, here) == IF marker \in {"arrow"} THEN <<here>> ELSE <<>>

\* Where a glyph is placed: the translation of its transform
PlacedAt(e) == <<e.attrs.transform[5], e.attrs.transform[6]>>

----------------------------------------------------------------------------
(* C13 *)

RECURSIVE Recorded(_, _, _, _)
\* Every node of the tree s, of the kinds given, holds the position it was
\* rendered at, s being rendered at (x, y) and a child at its parent's
\* position plus its dx, dy
Recorded(s, x, y, kinds) ==
    /\ s.kind \in kinds => s.x = x /\ s.y = y
    /\ \A i \in 1..Len(s.children) :
         Recorded(s.children[i], x + s.children[i].dx, y + s.children[i].dy,
                  kinds)

\* The top-level shapes the last renderInto rendered hold, node by node of
\* the kinds given, the positions they were rendered at
RecordedAll(kinds) ==
    last.op = "renderInto" =>
        \A i \in 1..Len(shapes) :
            ~Lacks(last.pre[i]) =>
                Recorded(shapes[i], last.pre[i].x, last.pre[i].y, kinds)

\* C13: render(x, y) records its arguments: after renderInto every node, a
\* Text, a Vbox or an Hbox, has x and y equal to the position it was rendered
\* at, the top-left corner that connectionPoints starts from.
C13_RenderRecordsPosition == RecordedAll({"Text", "Vbox", "Hbox"})

----------------------------------------------------------------------------
(* C14 *)

\* A defined number that is not negative
NonNegative(v) == IsNum(v) /\ v >= 0

C14At(post) ==
    /\ NonNegative(post.width)
    /\ NonNegative(post.height)
    /\ \A k \in 1..Len(post.children) :
         IsNum(post.children[k].dx) /\ IsNum(post.children[k].dy)

\* C14: after layout() of a tree whose forced sizes, padding, spacing and
\* text measurements are non-negative numbers, every node has a width and a
\* height that are non-negative numbers, and every child of every box has a
\* dx and a dy that are numbers.
C14_SizesDefined == \A p \in LaidOut : C14At(p[2])

\* A box forced to 0 by 0 around a text, aligned to the bottom, has been laid
\* out: its child starts above it, at a negative dy, and its sizes are not
\* negative
C14_Witness ==
    /\ last.op = "layout"
    /\ last.pre[1].width = 0
    /\ last.pre[1].height = 0
    /\ Len(shapes[1].children) = 1
    /\ shapes[1].children[1].kind = "Text"
    /\ shapes[1].children[1].dy < 0
    /\ NonNegative(shapes[1].height)
    /\ NonNegative(shapes[1].width)

----------------------------------------------------------------------------
(* C15 *)

RECURSIVE PreOrder(_)
RECURSIVE PreOrderAll(_, _)

\* The nodes of a tree, each before its children, the children in order
PreOrder(s) == <<s>> \o PreOrderAll(s.children, Len(s.children))

\* The nodes of trees 1..n of a list, tree by tree
PreOrderAll(list, n) ==
    IF n = 0 THEN <<>>
    ELSE PreOrderAll(list, n - 1) \o PreOrder(list[n])

\* C15: shapeById(id) returns the first shape of that id in depth-first
\* pre-order over the top-level shapes and their descendants, so the earliest
\* of several that share the id, and null when no shape has the id.
C15_FirstInPreOrder ==
    last.op = "shapeById" =>
        LET order == PreOrderAll(shapes, Len(shapes))
            hits == {k \in 1..Len(order) : order[k].id = last.arg}
        IN  IF hits = {} THEN last.found = null
            ELSE last.found = order[SetMin(hits)]

\* A box of id a that holds a text of id b, and then another box of id b:
\* looking up b has returned the text, the first in pre-order
C15_Witness ==
    /\ last.op = "shapeById"
    /\ last.arg = "b"
    /\ Len(shapes) = 2
    /\ shapes[1].id = "a"
    /\ Len(shapes[1].children) > 0
    /\ shapes[1].children[1].id = "b"
    /\ shapes[2].id = "b"
    /\ last.found = shapes[1].children[1]
    /\ last.found.kind = "Text"

----------------------------------------------------------------------------
(* C16 *)

\* Two layouts of a box give it the same size and its children the same
\* offset
SameOn(q, r, off) ==
    /\ q.width = r.width
    /\ q.height = r.height
    /\ \A k \in 1..Len(q.children) : q.children[k][off] = r.children[k][off]

\* The box laid out as post would be laid out the same with any other value
\* of its alignment key on the axis, when it has no size on that axis
C16At(pre, post, axis) ==
    (IsBox(pre) /\ pre[axis] = undefined) =>
        \A key \in {LeadingKey(axis), "center", "middle", TrailingKey(axis)} :
            SameOn(layout(IF axis = "width" THEN [pre EXCEPT !.align = key]
                          ELSE [pre EXCEPT !.valign = key]),
                   post, OffsetOn(axis))

\* C16: align is ignored unless the width is set, and valign unless the
\* height is set: a Vbox or Hbox with no width has the same size and the same
\* dx on every child whatever its align, and one with no height the same
\* size and the same dy whatever its valign.
C16_AlignIgnoredUnlessForced ==
    \A p \in LaidOut : C16At(p[1], p[2], "width") /\ C16At(p[1], p[2], "height")

----------------------------------------------------------------------------
(* C17 *)

\* The shape has the geometry routing reads
Placed(s) == IsNum(s.x) /\ IsNum(s.y) /\ IsNum(s.width) /\ IsNum(s.height)

\* Every line with two ends that name shapes finds both shapes placed.
\* Rendering a line changes no shape, so the shapes a line finds are those
\* of the state renderInto ends in.
RoutedOnPlaced ==
    \A k \in 1..Len(lines) :
        Connects(lines[k]) =>
            \A s \in Named(lines[k].from) \cup Named(lines[k].to) : Placed(s)

\* C17: in every renderInto, the two shapes a connector is routed between
\* have numeric x, y, width and height when it is routed, also when one of
\* them is a top-level shape that was skipped for lacking x or y, or is
\* inside one; and such a connector does not abort the render.
C17_RoutedAfterPlaced ==
    last.op = "renderInto" => RoutedOnPlaced /\ ~last.threw

----------------------------------------------------------------------------
(* C18 *)

\* The side midpoints of a shape in the order top, right, bottom, left
Sides(s) ==
    << <<s.x + s.width \div 2, s.y>>, <<s.x + s.width, s.y + s.height \div 2>>,
       <<s.x + s.width \div 2, s.y + s.height>>, <<s.x, s.y + s.height \div 2>> >>

\* The pairs of sides <<i, j>> of two shapes that no pair is closer than
Closest(f, t) ==
    LET from == Sides(f)
        to == Sides(t)
        apart == [c \in (1..4) \X (1..4) |-> Apart(from[c[1]], to[c[2]])]
    IN  {c \in DOMAIN apart : \A d \in DOMAIN apart : ~BigLess(apart[d], apart[c])}

\* The first of a set of pairs, the from side counting before the to side
FirstPair(S) ==
    CHOOSE c \in S :
        \A d \in S : c[1] < d[1] \/ (c[1] = d[1] /\ c[2] <= d[2])

\* C18: of several pairs of sides at the least distance, the path of a line
\* joins the first, the from-shape's sides being gone through in the order
\* top, right, bottom, left and, for each of them, the to-shape's sides in
\* the same order.
C18_FirstOfTies ==
    (last.op = "renderInto" /\ ~last.threw) =>
        \A j \in 1..Len(Out) :
            IsLinePath(Out[j]) =>
                \A f \in Named(lines[1].from), t \in Named(lines[1].to) :
                    LET c == FirstPair(Closest(f, t))
                    IN  /\ Out[j].attrs.d.M = Sides(f)[c[1]]
                        /\ Out[j].attrs.d.L = Sides(t)[c[2]]

\* A line from the box a to itself has been drawn: the four pairs of a side
\* with itself are at distance 0, and the path is from the top to the top
C18_Witness ==
    /\ last.op = "renderInto"
    /\ lines[1].from = "a"
    /\ lines[1].to = "a"
    /\ Cardinality(Closest(shapes[1], shapes[1])) = 4
    /\ \E j \in 1..Len(Out) :
         /\ IsLinePath(Out[j])
         /\ Out[j].attrs.d.M = Sides(shapes[1])[1]
         /\ Out[j].attrs.d.L = Sides(shapes[1])[1]

----------------------------------------------------------------------------
(* C19 *)

\* The direction a glyph was handed: the first column of its transform
DirectionOf(e) == <<e.attrs.transform[1], e.attrs.transform[2]>>

\* The direction n is the unit vector from here to there: its components are
\* there - here over one length, and the squares of the two sum to the
\* square of that length
UnitToward(n, here, there) ==
    /\ IsNum(n[1].num) /\ IsNum(n[2].num)
    /\ n[1].num = there[1] - here[1]
    /\ n[2].num = there[2] - here[2]
    /\ n[1].den = n[2].den
    /\ n[1].den # <<0, 0, 0>>
    /\ BigAdd(Square(n[1].num), Square(n[2].num)) = n[1].den

\* Every glyph of the line drawn is handed the unit vector from its end to
\* the other end, for the lines whose ends satisfy the condition given
DirectionsUnit(Where(_, _)) ==
    last.op = "renderInto" =>
        \A j \in 1..Len(Out) :
            (IsLinePath(Out[j]) /\ Where(Out[j].attrs.d.M, Out[j].attrs.d.L)) =>
                LET from == Out[j].attrs.d.M
                    to == Out[j].attrs.d.L
                    atFrom == lines[1].fromMarker \in markers
                    atTo == lines[1].toMarker \in markers
                    g == j + (IF atFrom THEN 2 ELSE 1)
                IN  /\ atFrom => UnitToward(DirectionOf(Out[j + 1]), from, to)
                    /\ atTo => UnitToward(DirectionOf(Out[g]), to, from)
                    /\ (atFrom /\ atTo) =>
                         /\ DirectionOf(Out[g])[1] = Negate(DirectionOf(Out[j + 1])[1])
                         /\ DirectionOf(Out[g])[2] = Negate(DirectionOf(Out[j + 1])[2])

AnyEnds(from, to) == TRUE

\* C19: the direction handed to the marker of an end is a unit vector from
\* that end toward the other end of the line, for every two shapes a line
\* joins, a shape joined to itself and shapes whose selected points coincide
\* included; the two ends of a line get opposite directions.
C19_UnitDirection == DirectionsUnit(AnyEnds)

----------------------------------------------------------------------------
(* C20 *)

\* The element of a node: a rect of its position and size for a box, a text
\* at its position for a text
ElementOf(s) ==
    IF IsBox(s)
    THEN [tag |-> "rect",
          attrs |-> [x |-> s.x, y |-> s.y, width |-> s.width, height |-> s.height]]
    ELSE [tag |-> "text", attrs |-> [x |-> s.x, y |-> s.y], text |-> s.text]

\* Every child of the box s is where s is plus the child's dx, dy: a box at
\* its corner, a text with its baseline 0.8 of its height below
ChildrenAt(s) ==
    \A k \in 1..Len(s.children) :
        LET child == s.children[k]
        IN  /\ child.x = s.x + child.dx
            /\ child.y = s.y + child.dy
                         + (IF IsBox(child) THEN 0 ELSE (4 * child.height) \div 5)

\* C20: Box.render returns the rect of the box, then what its children
\* return, in child order, each child being rendered at (x + dx, y + dy); so
\* after renderInto every nested box is at its top-level ancestor's (x, y)
\* plus the sum of the dx, dy on the way down to it.
C20_RectThenChildren ==
    last.op = "renderInto" =>
        LET order == PreOrderAll(shapes, Len(shapes))
        IN  /\ Out = [k \in 1..Len(order) |-> ElementOf(order[k])]
            /\ \A k \in 1..Len(order) : IsBox(order[k]) => ChildrenAt(order[k])
            /\ RecordedAll({"Vbox", "Hbox"})

\* A box at (10, 20) that holds a box that holds a box of two texts has been
\* rendered: six elements, the three rects first, each box at the sum of the
\* offsets down to it, and the texts of the innermost box before the text
\* that follows it
C20_Witness ==
    /\ last.op = "renderInto"
    /\ Len(shapes[1].children) = 1
    /\ Len(shapes[1].children[1].children) = 2
    /\ Len(shapes[1].children[1].children[1].children) = 2
    /\ Len(Out) = 6
    /\ Out[1].tag = "rect" /\ Out[2].tag = "rect" /\ Out[3].tag = "rect"
    /\ Out[4].tag = "text" /\ Out[4].text = "a"
    /\ Out[5].tag = "text" /\ Out[5].text = "bb"
    /\ Out[6].tag = "text" /\ Out[6].text = "a"
    /\ Out[3].attrs.x = 10 * Unit + shapes[1].children[1].dx
                        + shapes[1].children[1].children[1].dx
    /\ Out[3].attrs.y = 20 * Unit + shapes[1].children[1].dy
                        + shapes[1].children[1].children[1].dy
    /\ shapes[1].children[1].dx > 0
    /\ shapes[1].children[1].children[1].dx > 0

----------------------------------------------------------------------------
(* C21 *)

\* A child of the box came out of its layout() with no width or no height
Unsized(post) ==
    \E k \in 1..Len(post.children) :
        post.children[k].width = undefined \/ post.children[k].height = undefined

\* The box holds a value that is not a number in its size or in the offsets
\* of its children
Tainted(post) ==
    \/ ~IsNum(post.width)
    \/ ~IsNum(post.height)
    \/ \E k \in 1..Len(post.children) :
         ~IsNum(post.children[k].dx) \/ ~IsNum(post.children[k].dy)

\* C21: when the layout() of a child leaves the child's width or height
\* undefined, the layout() of the box that holds it fails with an error; it
\* does not complete with undefined or NaN in the box's width or height or
\* in a child's dx or dy.
C21_FailsFast ==
    last.op = "layout" =>
        \A p \in LaidOut :
            (IsBox(p[1]) /\ Unsized(p[2])) => (last.threw /\ ~Tainted(p[2]))

----------------------------------------------------------------------------
(* C22 *)

\* The points findConnectionPoints selects, without their normals, or none
Selected(f, t) ==
    LET points == findConnectionPoints(f, t)
    IN  IF points[1] = noPoint \/ points[2] = noPoint THEN <<>>
        ELSE << <<points[1][1], points[1][2]>>, <<points[2][1], points[2][2]>> >>

\* The two shapes are joined the same way from either: the points selected
\* from t to f are those selected from f to t, exchanged
Symmetric(f, t) ==
    LET there == Selected(f, t)
        back == Selected(t, f)
    IN  (there # <<>> /\ back # <<>>) =>
            (back[1] = there[2] /\ back[2] = there[1])

\* C22: routing is symmetric: for two rendered shapes A and B the points
\* selected for a line from A to B are those selected for a line from B to
\* A, the same point on A and the same point on B, also when several pairs
\* of points are at the least distance.
C22_RoutingSymmetric ==
    last.op = "renderInto" =>
        \A i \in 1..Len(shapes), j \in 1..Len(shapes) :
            (Placed(shapes[i]) /\ Placed(shapes[j])) =>
                Symmetric(shapes[i], shapes[j])

----------------------------------------------------------------------------
(* C23 *)

\* C23: for two rendered shapes with numeric geometry, however far apart,
\* findConnectionPoints returns two points and Line.render returns a path:
\* renderInto does not throw, and the line's path is among the elements.
C23_AlwaysSelects ==
    last.op = "renderInto" =>
        \A k \in 1..Len(lines) :
            Connects(lines[k]) =>
                \A f \in Named(lines[k].from), t \in Named(lines[k].to) :
                    (Placed(f) /\ Placed(t)) =>
                        /\ Selected(f, t) # <<>>
                        /\ ~last.threw
                        /\ \E j \in 1..Len(Out) :
                             /\ IsLinePath(Out[j])
                             /\ <<Out[j].attrs.d.M, Out[j].attrs.d.L>> = Selected(f, t)

----------------------------------------------------------------------------
(* C24 *)

\* The top-level shapes that have x and y, which renderInto rendered
Rendered == {s \in TopLevel : ~Lacks(s)}

\* C24: after a renderInto that rendered a top-level shape and skipped
\* another, shrinkWrap sets the element's width and height to numbers,
\* those of the rendered shapes alone: left + right and top + bottom over the
\* shapes that have x and y.
C24_ShrinkWrapSkipsSkipped ==
    (last.op = "shrinkWrap" /\ el /\ Rendered # {} /\ Rendered # TopLevel) =>
        LET left == SetMax({0, SetMin({s.x : s \in Rendered})})
            top == SetMax({0, SetMin({s.y : s \in Rendered})})
            right == SetMax({s.x + s.width : s \in Rendered})
            bottom == SetMax({s.y + s.height : s \in Rendered})
        IN  /\ IsNum(svg.width) /\ IsNum(svg.height)
            /\ svg.width = left + right
            /\ svg.height = top + bottom

----------------------------------------------------------------------------
(* C25 *)

\* The elements the element held before the last call end with those the
\* last call appended: the call before it appended the same
SameAsBefore ==
    LET before == last.element.children
    IN  /\ Len(before) >= Len(Out)
        /\ SubSeq(before, Len(before) - Len(Out) + 1, Len(before)) = Out

\* A renderInto leaves the x and y of every top-level shape as they were,
\* and one that is not the first leaves every node as the call before left
\* it and appends the elements that call appended
Repeatable ==
    (last.op = "renderInto" /\ ~last.threw) =>
        /\ \A i \in 1..Len(shapes) :
             shapes[i].x = last.pre[i].x /\ shapes[i].y = last.pre[i].y
        /\ last.renders > 1 => (shapes = last.pre /\ SameAsBefore)

\* C25: rendering is repeatable: a second renderInto on the same diagram,
\* top-level texts included, records the same x, y, width and height on
\* every node and emits the same elements as the first, and rendering leaves
\* the declared x and y of the top-level shapes unchanged.
C25_RenderRepeatable == Repeatable

----------------------------------------------------------------------------
(* C26 *)

\* What the children of a box take on an axis, all together
Needed(s, kids, axis) ==
    IF Len(kids) = 0 THEN 0
    ELSE IF axis = StackAxis(s) THEN Content(s, kids, axis)
    ELSE MaxExtent(kids, axis)

\* The box has room on the axis: no size set, or a positive one of at least
\* the padding and what its children take
Roomy(pre, kids, axis) ==
    \/ pre[axis] = undefined
    \/ /\ pre[axis] > 0
       /\ pre[axis] >= LeadingPad(pre, axis) + Needed(pre, kids, axis)
                       + TrailingPad(pre, axis)

C26At(pre, post, axis) ==
    LET kids == post.children
        off == OffsetOn(axis)
    IN  (IsBox(pre) /\ Roomy(pre, kids, axis)) =>
            /\ \A k \in 1..Len(kids) :
                 /\ LeadingPad(pre, axis) <= kids[k][off]
                 /\ kids[k][off] + kids[k][axis]
                      <= post[axis] - TrailingPad(pre, axis)
            /\ axis = StackAxis(pre) =>
                 \A k \in 1..(Len(kids) - 1) :
                     kids[k][off] + kids[k][axis] <= kids[k + 1][off]

\* C26: in a box of non-negative padding and spacing that has no size on an
\* axis, or a positive one of at least its content and padding, every child
\* lies within the padding on that axis after layout(): leading padding <=
\* offset and offset + extent <= size - trailing padding; and on the
\* stacking axis no child starts before the one before it ends.
C26_Containment ==
    \A p \in LaidOut : C26At(p[1], p[2], "width") /\ C26At(p[1], p[2], "height")

\* A Vbox of height 100 and padding [5, 10, 15, 20], aligned to the bottom and
\* to the right, has been laid out around two texts: the last one ends at the
\* bottom padding, the wider one at the right padding
C26_Witness ==
    /\ last.op = "layout"
    /\ last.pre[1].kind = "Vbox"
    /\ last.pre[1].height = 100 * Unit
    /\ last.pre[1].width = undefined
    /\ last.pre[1].valign = "bottom"
    /\ last.pre[1].align = "right"
    /\ CssEdges(shapes[1].padding).bottom = 15 * Unit
    /\ Len(shapes[1].children) = 2
    /\ shapes[1].children[1].kind = "Text"
    /\ shapes[1].children[2].kind = "Text"
    /\ shapes[1].children[1].width # shapes[1].children[2].width
    /\ shapes[1].children[2].dy + shapes[1].children[2].height = 85 * Unit
    /\ shapes[1].children[2].dx + shapes[1].children[2].width
         = shapes[1].width - 10 * Unit \/
       shapes[1].children[1].dx + shapes[1].children[1].width
         = shapes[1].width - 10 * Unit

====
